---- MODULE Spec2Model ----
(***************************************************************************)
(* Conversation-session manager of bot.py: the thread cache over the       *)
(* user_threads table, the hourly cache janitor, the active_threads guard  *)
(* and the stale-thread retry of handle_user_message.                      *)
(*                                                                         *)
(* Every handle_user_message task is a process whose steps are cut at the  *)
(* await points of the coroutine; what runs between two awaits is one      *)
(* atomic step (asyncio runs one task at a time).  The database, the       *)
(* assistant backend and the chat platform are external: each call either  *)
(* succeeds or raises, chosen nondeterministically.                        *)
(***************************************************************************)
EXTENDS Integers, FiniteSets, Sequences, TLC

\* ---------------------------------------------------------------- bounds
MaxMessages == 2      \* inbound messages handled in one behaviour
MaxThreads == 2       \* backend threads created in one behaviour
MaxReady == 2         \* on_ready events in one behaviour
MaxTextLen == 4001    \* longest text handed to send_long_message

\* ------------------------------------------------------------- constants
Handlers == {"h1", "h2"}        \* concurrently running handle_user_message tasks
Users == {"U1", "U2"}           \* message authors
ThreadIds == 1..MaxThreads      \* thread.id values handed out by the backend
None == 0                       \* Python None / absent dict key / no row
StaleHours == 24                \* INTERVAL 24 HOUR
SleepHours == 1                 \* asyncio.sleep(3600)
Elapse == {StaleHours + 1}      \* hours that pass between two steps
MaxAge == StaleHours + 1        \* ages beyond the threshold are all alike

LookupRaised == -1              \* the SELECT of get_thread_id raised
CreateRaised == -2              \* threads.create of the resolution raised

MaxLength == 2000               \* max_length of send_long_message
NumGuilds == 2                  \* guilds the bot is in
Everyone == "@everyone"         \* the role every member of a guild holds
ALLOWED_ROLES == {"Admin"}
\* The role sets a member of a guild can hold.
MemberRoles == {{Everyone} \cup R : R \in SUBSET {"Admin", "Helper"}}
NotMember == {"not a member"}   \* guild.get_member returns None
\* For each guild of bot.guilds, in order, the author's roles there.
Memberships == [1..NumGuilds -> MemberRoles \cup {NotMember}]
\* The role sets the bot can hold over its guilds.
BotRoleSets == {{Everyone}, {Everyone, "Helper"}}
NoMessage == [own |-> FALSE, dm |-> FALSE, member |-> <<>>, did |-> "none"]

NoUser == "nobody"               \* no task, no message author
NoRow == [thread_id |-> None, age |-> 0]

VARIABLES
    thread_cache,     \* user -> thread id, None when the key is absent
    user_threads,     \* the user_threads table: user -> row, NoRow when absent;
                      \* a row holds its age NOW() - last_used, in hours
    active_threads,   \* set of thread ids being processed
    threads_created,  \* number of threads the backend has created
    messages,         \* number of inbound messages handled so far
    jan_pc,           \* reset_thread_cache: "sleep" or "evict"
    jan_results,      \* rows fetched by the janitor's query
    jan_sleep,        \* hours left of the janitor's sleep
    jan_prev,         \* {S} when the last completed janitor cycle fetched the
                      \* users S and no handler has been running since, else {}
    jan_failed,       \* the janitor's last query failed and no handler has
                      \* been running since
    pc,               \* position of each handler
    user,             \* str(message.author.id) of each handler
    thread_id,        \* local variable thread_id of each handler
    resolved,         \* thread id the resolution handed to the handler, None
                      \* before that, or the call that raised in the resolution
    admitted,         \* thread id the handler added to active_threads, or None
    attempts,         \* messages.create calls issued in this request
    replaced,         \* replacement threads created in this request
    first_error,      \* result of the first messages.create of this request
    dm,               \* kinds of message sent to the author for this request
    overlap,          \* handlers whose request ran concurrently with this one
    db_pool,          \* the global db_pool: None, or the pool of the n-th on_ready
    jan_tasks,        \* number of reset_thread_cache tasks created
    ready_pc,         \* position of the on_ready handler
    readies,          \* number of on_ready events so far
    BOT_ROLES,        \* the global BOT_ROLES
    bot_roles,        \* names of the roles the bot holds in its guilds
    gate,             \* the last message on_message received and what it did
    text_len,         \* len(text) of the send_long_message call
    chunk_i,          \* loop variable i of send_long_message
    chunks,           \* the chunks sent, in order, as slices <<from, to>> of text
    send_pc           \* position of send_long_message

vars == <<thread_cache, user_threads, active_threads, threads_created,
          messages, jan_pc, jan_results, jan_sleep, jan_prev, jan_failed,
          pc, user,
          thread_id, resolved, admitted, attempts, replaced, first_error, dm, overlap,
          db_pool, jan_tasks, ready_pc, readies, BOT_ROLES, bot_roles, gate,
          text_len, chunk_i, chunks, send_pc>>

shared == <<thread_cache, user_threads, active_threads, threads_created>>
janitor == <<jan_pc, jan_results, jan_sleep>>
locals == <<user, thread_id, attempts, replaced, first_error>>
gateway == <<db_pool, jan_tasks, ready_pc, readies, BOT_ROLES, bot_roles, gate>>
outbox == <<text_len, chunk_i, chunks, send_pc>>
outside == <<gateway, outbox>>

Running(h) == pc[h] \notin {"idle", "done"}

\* A step of a handler ends the quiet period that follows a janitor cycle.
Activity == jan_prev' = {} /\ jan_failed' = FALSE

\* The task ends (a return, or an exception that leaves the coroutine) after
\* sending the messages `sent': its local variables are gone.  What the
\* request did (resolved, admitted, dm) stays on record while a request that
\* ran concurrently with it is still running, and is dropped after that.
Finish(h, sent, res) ==
    /\ user' = [user EXCEPT ![h] = NoUser]
    /\ thread_id' = [thread_id EXCEPT ![h] = None]
    /\ attempts' = [attempts EXCEPT ![h] = 0]
    /\ replaced' = [replaced EXCEPT ![h] = 0]
    /\ first_error' = [first_error EXCEPT ![h] = "none"]
    /\ IF \A k \in Handlers \ {h} : ~Running(k)
       THEN /\ pc' = [k \in Handlers |-> "idle"]
            /\ resolved' = [k \in Handlers |-> None]
            /\ admitted' = [k \in Handlers |-> None]
            /\ dm' = [k \in Handlers |-> {}]
            /\ overlap' = [k \in Handlers |-> {}]
       ELSE /\ pc' = [pc EXCEPT ![h] = "done"]
            /\ dm' = [dm EXCEPT ![h] = @ \cup sent]
            /\ resolved' = [resolved EXCEPT ![h] = res]
            /\ UNCHANGED <<admitted, overlap>>

Return(h, sent) == Finish(h, sent, resolved[h])

Goto(h, p) == pc' = [pc EXCEPT ![h] = p]

\* Tasks are anonymous: a new task takes the first slot that is not running.
FreeSlot(h) == ~Running(h) /\ (h = "h2" => Running("h1"))

InitSession ==
    /\ thread_cache = [u \in Users |-> None]
    /\ user_threads = [u \in Users |-> NoRow]
    /\ active_threads = {}
    /\ threads_created = 0
    /\ messages = 0
    /\ jan_pc = "sleep"
    /\ jan_results = {}
    /\ jan_sleep = SleepHours
    /\ jan_prev = {}
    /\ jan_failed = FALSE
    /\ pc = [h \in Handlers |-> "idle"]
    /\ user = [h \in Handlers |-> NoUser]
    /\ thread_id = [h \in Handlers |-> None]
    /\ resolved = [h \in Handlers |-> None]
    /\ admitted = [h \in Handlers |-> None]
    /\ attempts = [h \in Handlers |-> 0]
    /\ replaced = [h \in Handlers |-> 0]
    /\ first_error = [h \in Handlers |-> "none"]
    /\ dm = [h \in Handlers |-> {}]
    /\ overlap = [h \in Handlers |-> {}]

\* Line 243: the names of the bot's roles, @everyone left out.
BotRoles(held) == held \ {Everyone}

\* The state in which the handlers and the janitor run: on_ready has created
\* the pool and started reset_thread_cache, no text is being sent.
InitStarted ==
    /\ db_pool = 1
    /\ jan_tasks = 1
    /\ ready_pc = "idle"
    /\ readies = 1
    /\ bot_roles = {Everyone}
    /\ BOT_ROLES = BotRoles({Everyone})
    /\ gate = NoMessage

InitOutbox ==
    /\ text_len = 0
    /\ chunk_i = 0
    /\ chunks = <<>>
    /\ send_pc = "idle"

Init == InitSession /\ InitStarted /\ InitOutbox

\* ----------------------------------------------------------- the clock
Min(a, b) == IF a < b THEN a ELSE b
Max(a, b) == IF a > b THEN a ELSE b

\* d hours pass: NOW() moves away from every last_used, and the janitor's
\* sleep runs down.
Tick(d) ==
    /\ user_threads' = [u \in Users |->
                          IF user_threads[u] = NoRow THEN NoRow
                          ELSE [user_threads[u] EXCEPT !.age = Min(@ + d, MaxAge)]]
    /\ jan_sleep' = IF jan_pc = "sleep" THEN Max(jan_sleep - d, 0) ELSE jan_sleep
    /\ UNCHANGED <<thread_cache, active_threads, threads_created, messages,
                   jan_pc, jan_results, jan_prev, jan_failed, pc, locals,
                   resolved, admitted, dm, overlap, outside>>

\* ------------------------------------------------- on_message / task start
\* on_message creates a handle_user_message task for a permitted DM; the
\* task runs up to its first await (update_username_lookup, which swallows
\* its own errors).  Authors are interchangeable: the first one is called U1.
StartTask(h, u) ==
    /\ FreeSlot(h)
    /\ Activity
    /\ messages < MaxMessages
    /\ messages = 0 => u = "U1"
    /\ messages' = messages + 1
    /\ Goto(h, "get_thread_id")
    /\ user' = [user EXCEPT ![h] = u]
    /\ resolved' = [resolved EXCEPT ![h] = None]
    /\ admitted' = [admitted EXCEPT ![h] = None]
    /\ dm' = [dm EXCEPT ![h] = {}]
    /\ overlap' = [g \in Handlers |->
                     IF g = h THEN {k \in Handlers \ {h} : Running(k)}
                     ELSE IF Running(g) THEN overlap[g] \cup {h}
                     ELSE overlap[g] \ {h}]
    /\ UNCHANGED <<shared, janitor, thread_id, attempts, replaced, first_error>>

\* A direct message of a permitted author arrives.
OnMessage(h, u) == StartTask(h, u) /\ UNCHANGED outside

\* ----------------------------------------------------------- save_thread
\* Line 177: the cache is written first, before the database is touched.
CachePut(cache, u, t) == [cache EXCEPT ![u] = t]

\* Lines 182-188: INSERT ... ON DUPLICATE KEY UPDATE, last_used = CURRENT_TIMESTAMP.
Upsert(table, u, t) == [table EXCEPT ![u] = [thread_id |-> t, age |-> 0]]

\* ---------------------------------------------------------- get_thread_id
\* Lines 196-197 on a hit (no await is reached, so the caller goes straight
\* on to save_thread and its cache write of line 177); otherwise the task
\* suspends in the SELECT.
GetThreadId(h) ==
    /\ pc[h] = "get_thread_id"
    /\ Activity
    /\ UNCHANGED outside
    /\ IF thread_cache[user[h]] # None
       THEN /\ thread_id' = [thread_id EXCEPT ![h] = thread_cache[user[h]]]
            /\ thread_cache' = CachePut(thread_cache, user[h], thread_cache[user[h]])
            /\ Goto(h, "save_thread")
       ELSE /\ Goto(h, "select")
            /\ UNCHANGED <<thread_id, thread_cache>>
    /\ UNCHANGED <<user_threads, active_threads, threads_created, messages,
                   janitor, user, attempts, replaced, first_error, resolved, admitted, dm, overlap>>

\* Mutant of lines 199-203: the SELECT is wrapped in a try that returns None.
SelectResult_Swallowed(ok, row) == IF ok THEN row.thread_id ELSE None

\* Lines 199-203: what the SELECT gives get_thread_id: the thread id of the
\* row, None when there is no row, or the exception of the database.
SelectResult(ok, row) == IF ok THEN row.thread_id ELSE LookupRaised

\* Lines 200-203: the SELECT is executed by the database.  A failure raises
\* out of get_thread_id; the call is outside every try block, so the task ends.
SelectThread(h, ok) ==
    /\ pc[h] = "select"
    /\ Activity
    /\ UNCHANGED outside
    /\ LET r == SelectResult(ok, user_threads[user[h]]) IN
       IF r # LookupRaised
       THEN /\ thread_id' = [thread_id EXCEPT ![h] = r]
            /\ Goto(h, "selected")
            /\ UNCHANGED <<user, attempts, replaced, first_error>>
            /\ UNCHANGED <<resolved, admitted, dm, overlap>>
       ELSE Finish(h, {}, LookupRaised)
    /\ UNCHANGED <<shared, messages, janitor>>

\* Lines 205-209 and 313: the task resumes with the fetched row.
Selected(h) ==
    /\ pc[h] = "selected"
    /\ Activity
    /\ UNCHANGED outside
    /\ IF thread_id[h] # None
       THEN /\ thread_cache' = CachePut(thread_cache, user[h], thread_id[h])
            /\ Goto(h, "save_thread")
       ELSE /\ Goto(h, "create_thread")
            /\ UNCHANGED thread_cache
    /\ UNCHANGED <<user_threads, active_threads, threads_created, messages,
                   janitor, locals, resolved, admitted, dm, overlap>>

\* Mutant of line 314: a failed threads.create is swallowed and the
\* resolution goes on without a thread.
CreateResult_Swallowed(ok, n) == IF ok THEN n + 1 ELSE None

\* Lines 314-315: threads.create hands out the next thread id or raises.
CreateResult(ok, n) == IF ok THEN n + 1 ELSE CreateRaised

\* Lines 314-321 and 177: client.beta.threads.create() returns a fresh id and
\* save_thread writes it to the cache; a failure raises outside every try block.
CreateThread(h, ok) ==
    /\ pc[h] = "create_thread"
    /\ Activity
    /\ UNCHANGED outside
    /\ ok => threads_created < MaxThreads
    /\ LET t == CreateResult(ok, threads_created) IN
       IF t # CreateRaised
       THEN /\ threads_created' = Max(threads_created, t)
            /\ thread_id' = [thread_id EXCEPT ![h] = t]
            /\ thread_cache' = CachePut(thread_cache, user[h], t)
            /\ Goto(h, "save_thread")
            /\ UNCHANGED <<user, attempts, replaced, first_error, resolved,
                           admitted, dm, overlap>>
       ELSE /\ Finish(h, {}, CreateRaised)
            /\ UNCHANGED <<threads_created, thread_cache>>
    /\ UNCHANGED <<user_threads, active_threads, messages, janitor>>

\* Lines 180-191: the upsert of save_thread, during resolution (line 321) or
\* during the retry (line 469).  An exception is printed and swallowed.
SaveThread(h, ok) ==
    /\ pc[h] \in {"save_thread", "resave_thread"}
    /\ Activity
    /\ UNCHANGED outside
    /\ user_threads' = IF ok THEN Upsert(user_threads, user[h], thread_id[h])
                       ELSE user_threads
    /\ resolved' = IF pc[h] = "save_thread"
                   THEN [resolved EXCEPT ![h] = thread_id[h]]
                   ELSE resolved
    /\ Goto(h, IF pc[h] = "save_thread" THEN "admit" ELSE "retry")
    /\ UNCHANGED <<thread_cache, active_threads, threads_created, messages,
                   janitor, locals, admitted, dm, overlap>>

\* ------------------------------------------------- the admission guard
\* Mutant of line 443: one request at a time, whatever its thread.
IsActive_AnyThread(t, active) == active # {}

\* Line 443: the test of the guard.
IsActive(t, active) == t \in active

\* Lines 323-450.  Building content_data reaches no await for a text message;
\* a message with nothing usable is answered with a warning and the task
\* returns (lines 343-350, 437-440).  Lines 443-450 test and insert without
\* an await in between.
Admit(h, valid) ==
    /\ pc[h] = "admit"
    /\ Activity
    /\ UNCHANGED outside
    /\ IF ~valid
       THEN /\ Return(h, {"warning"})
            /\ UNCHANGED active_threads
       ELSE IF IsActive(thread_id[h], active_threads)
       THEN /\ Return(h, {})
            /\ UNCHANGED active_threads
       ELSE /\ active_threads' = active_threads \cup {thread_id[h]}
            /\ admitted' = [admitted EXCEPT ![h] = thread_id[h]]
            /\ Goto(h, "messages_create")
            /\ UNCHANGED <<dm, locals, resolved, overlap>>
    /\ UNCHANGED <<thread_cache, user_threads, threads_created, messages,
                   janitor>>

\* ------------------------------------------------ the stale-thread retry
\* Mutant of line 461: every failure of messages.create is retried.
IsThreadNotFound_AnyError(res) == res # "ok"

\* Line 461: the only error that is retried is the backend's 'thread not found'.
IsThreadNotFound(res) == res = "not_found"

\* Lines 455-461: the first messages.create.
MessagesCreate(h, res) ==
    /\ pc[h] = "messages_create"
    /\ Activity
    /\ UNCHANGED outside
    /\ attempts' = [attempts EXCEPT ![h] = @ + 1]
    /\ first_error' = [first_error EXCEPT ![h] = IF res = "ok" THEN "none" ELSE res]
    /\ Goto(h, IF res = "ok" THEN "run"
               ELSE IF IsThreadNotFound(res) THEN "new_thread"
               ELSE "notify_ai")
    /\ UNCHANGED <<shared, messages, janitor, user, thread_id, replaced,
                   resolved, admitted, dm, overlap>>

\* Lines 474-477: a generic error is reported to the author; the except
\* block has no return, so the task goes on to the run.  If the send itself
\* raises, the outer handler of line 478 takes over.
NotifyAI(h, ok) ==
    /\ pc[h] = "notify_ai"
    /\ Activity
    /\ UNCHANGED outside
    /\ IF ok
       THEN /\ dm' = [dm EXCEPT ![h] = @ \cup {"error_ai"}]
            /\ Goto(h, "run")
       ELSE /\ Goto(h, "notify_cali")
            /\ UNCHANGED dm
    /\ UNCHANGED <<shared, messages, janitor, locals, resolved, admitted, overlap>>

\* Lines 465-469 and 177: the replacement thread; thread_id is rebound to it
\* and save_thread writes it to the cache.  A failure of threads.create is
\* caught by the handler of line 478 with thread_id still the old id.
NewThread(h, ok) ==
    /\ pc[h] = "new_thread"
    /\ Activity
    /\ UNCHANGED outside
    /\ IF ok
       THEN /\ threads_created < MaxThreads
            /\ threads_created' = threads_created + 1
            /\ thread_id' = [thread_id EXCEPT ![h] = threads_created + 1]
            /\ thread_cache' = CachePut(thread_cache, user[h], threads_created + 1)
            /\ replaced' = [replaced EXCEPT ![h] = @ + 1]
            /\ Goto(h, "resave_thread")
       ELSE /\ Goto(h, "notify_cali")
            /\ UNCHANGED <<threads_created, thread_id, thread_cache, replaced>>
    /\ UNCHANGED <<user_threads, active_threads, messages, janitor, user,
                   attempts, first_error, resolved, admitted, dm, overlap>>

\* Mutant of line 472: a retry that fails with 'thread not found' starts over.
AfterRetryFailure_Again(res) == IF res = "not_found" THEN "new_thread" ELSE "notify_cali"

\* Where a failed retry goes: line 472 is inside the except block of line 457,
\* so whatever it raises reaches the handler of line 478.
AfterRetryFailure(res) == "notify_cali"

\* Line 472: the one retry on the replacement thread.
Retry(h, res) ==
    /\ pc[h] = "retry"
    /\ Activity
    /\ UNCHANGED outside
    /\ attempts' = [attempts EXCEPT ![h] = @ + 1]
    /\ Goto(h, IF res = "ok" THEN "run" ELSE AfterRetryFailure(res))
    /\ UNCHANGED <<shared, messages, janitor, user, thread_id, replaced,
                   first_error, resolved, admitted, dm, overlap>>

\* Lines 478-482: the failure is reported, the current thread_id is discarded
\* and the task returns.  If the send raises, the exception leaves the handler
\* before line 481 and is caught by line 546, which only prints.
NotifyCali(h, ok) ==
    /\ pc[h] = "notify_cali"
    /\ Activity
    /\ UNCHANGED outside
    /\ IF ok
       THEN /\ active_threads' = active_threads \ {thread_id[h]}
            /\ Return(h, {"error_cali"})
       ELSE /\ Return(h, {})
            /\ UNCHANGED active_threads
    /\ UNCHANGED <<thread_cache, user_threads, threads_created, messages,
                   janitor>>

\* ------------------------------------------------------ run and reply
\* Lines 485-526: create_and_poll, the token log (which swallows its errors)
\* and the discard of the current thread_id.  An exception of the run is
\* caught by line 546, which only prints.
Run(h, ok) ==
    /\ pc[h] = "run"
    /\ Activity
    /\ UNCHANGED outside
    /\ IF ok
       THEN /\ active_threads' = active_threads \ {thread_id[h]}
            /\ Goto(h, "messages_list")
            /\ UNCHANGED <<locals, resolved, admitted, dm, overlap>>
       ELSE /\ Return(h, {})
            /\ UNCHANGED active_threads
    /\ UNCHANGED <<thread_cache, user_threads, threads_created, messages,
                   janitor>>

\* Lines 529-547: the latest message is fetched and relayed.
MessagesList(h, ok) ==
    /\ pc[h] = "messages_list"
    /\ Activity
    /\ UNCHANGED outside
    /\ Return(h, IF ok THEN {"reply"} ELSE {})
    /\ UNCHANGED <<shared, messages, janitor>>

\* ------------------------------------------------- reset_thread_cache
\* Lines 132-135: the rows the query selects, last_used < NOW() - 24 hours.
StaleUsers(table) ==
    {u \in Users : table[u] # NoRow /\ table[u].age > StaleHours}

\* Mutant of lines 141-143: the fetched row is looked up in the cache as it
\* is (without line 141), so nothing is ever deleted.
Evict_Nothing(cache, results) == cache

\* Mutant of lines 140-143: the janitor empties the cache.
Evict_All(cache, results) == [u \in Users |-> None]

\* Lines 140-143: the entries the janitor deletes.
Evict(cache, results) == [u \in Users |-> IF u \in results THEN None ELSE cache[u]]

\* Mutant of lines 128-150: without the try, an exception of the query ends
\* the reset_thread_cache task.
AfterQueryError_Stopped == "stopped"

\* Lines 149-150: the exception is caught inside the loop and printed; the
\* loop goes back to the sleep of line 126.
AfterQueryError == "sleep"

\* Lines 126-137 and 149-150: after the sleep the query runs; an exception
\* is printed and the loop sleeps again.
JanitorQuery(ok) ==
    /\ jan_pc = "sleep"
    /\ jan_sleep = 0
    /\ IF ok
       THEN /\ jan_results' = StaleUsers(user_threads)
            /\ jan_pc' = "evict"
            /\ UNCHANGED <<jan_sleep, jan_failed>>
       ELSE /\ jan_pc' = AfterQueryError
            /\ jan_sleep' = SleepHours
            /\ jan_failed' = \A h \in Handlers : ~Running(h)
            /\ UNCHANGED jan_results
    /\ UNCHANGED <<shared, messages, jan_prev, pc, locals, resolved, admitted,
                   dm, overlap, outside>>

\* Lines 139-147: the task resumes with the rows and deletes them from the cache.
JanitorEvict ==
    /\ jan_pc = "evict"
    /\ thread_cache' = Evict(thread_cache, jan_results)
    /\ jan_results' = {}
    /\ jan_pc' = "sleep"
    /\ jan_sleep' = SleepHours
    /\ jan_prev' = IF \E h \in Handlers : Running(h) THEN {} ELSE {jan_results}
    /\ jan_failed' = FALSE
    /\ UNCHANGED <<user_threads, active_threads, threads_created, messages,
                   pc, locals, resolved, admitted, dm, overlap, outside>>

Results == {"ok", "not_found", "generic"}

\* A step of task h; the upserts of save_thread succeed or fail as `writes'
\* allows.
HandlerStep(h, writes) ==
    \/ \E u \in Users : OnMessage(h, u)
    \/ GetThreadId(h)
    \/ \E ok \in BOOLEAN : SelectThread(h, ok)
    \/ Selected(h)
    \/ \E ok \in BOOLEAN : CreateThread(h, ok)
    \/ \E ok \in writes : SaveThread(h, ok)
    \/ \E valid \in BOOLEAN : Admit(h, valid)
    \/ \E res \in Results : MessagesCreate(h, res)
    \/ \E ok \in BOOLEAN : NotifyAI(h, ok)
    \/ \E ok \in BOOLEAN : NewThread(h, ok)
    \/ \E res \in Results : Retry(h, res)
    \/ \E ok \in BOOLEAN : NotifyCali(h, ok)
    \/ \E ok \in BOOLEAN : Run(h, ok)
    \/ \E ok \in BOOLEAN : MessagesList(h, ok)

\* A step of reset_thread_cache.
JanitorStep ==
    \/ \E ok \in BOOLEAN : JanitorQuery(ok)
    \/ JanitorEvict

Next ==
    \/ \E d \in Elapse : Tick(d)
    \/ \E h \in Handlers : HandlerStep(h, BOOLEAN)
    \/ JanitorStep

Spec == Init /\ [][Next]_vars

\* The program beside a database whose upserts never fail: every step of
\* Next except a failing save_thread.
NextReliableStore ==
    \/ \E d \in Elapse : Tick(d)
    \/ \E h \in Handlers : HandlerStep(h, {TRUE})
    \/ JanitorStep

SpecReliableStore == Init /\ [][NextReliableStore]_vars

\* The janitor beside messages that are handled one at a time.
NextJanitor ==
    \/ \E d \in Elapse : Tick(d)
    \/ HandlerStep("h1", BOOLEAN)
    \/ JanitorStep

\* The event loop keeps running: time passes (asyncio.sleep returns), the
\* janitor's query returns or raises, and the janitor resumes with its rows.
Fairness ==
    /\ WF_vars(\E d \in Elapse : Tick(d))
    /\ WF_vars(\E ok \in BOOLEAN : JanitorQuery(ok))
    /\ WF_vars(JanitorEvict)

JanitorSpec == Init /\ [][NextJanitor]_vars /\ Fairness

\* ------------------------------------------------ on_ready and on_message
session == <<shared, messages, janitor, jan_prev, jan_failed, pc, locals,
             resolved, admitted, dm, overlap>>

\* The process has just started: no pool, no janitor, no roles collected.
GatewayInit ==
    /\ InitSession
    /\ InitOutbox
    /\ db_pool = None
    /\ jan_tasks = 0
    /\ ready_pc = "idle"
    /\ readies = 0
    /\ bot_roles \in BotRoleSets
    /\ BOT_ROLES = {}
    /\ gate = NoMessage

\* The gateway session becomes ready, at start-up and again after a
\* reconnect that could not resume: discord.py dispatches on_ready.
Ready ==
    /\ ready_pc = "idle"
    /\ readies < MaxReady
    /\ readies' = readies + 1
    /\ ready_pc' = "connect"
    /\ UNCHANGED <<session, outbox, db_pool, jan_tasks, BOT_ROLES, bot_roles, gate>>

\* Lines 252-257: create_db_connection returns a pool, or None when the
\* connection fails (lines 31-45); update_bot_roles; the test of db_pool.
ReadyConnect(ok) ==
    /\ ready_pc = "connect"
    /\ db_pool' = IF ok THEN readies ELSE None
    /\ BOT_ROLES' = BotRoles(bot_roles)
    /\ ready_pc' = IF ok THEN "start" ELSE "idle"
    /\ UNCHANGED <<session, outbox, jan_tasks, readies, bot_roles, gate>>

\* Lines 258-261: ensure_token_tracking_table (which swallows its errors) and
\* asyncio.create_task(reset_thread_cache()).
ReadyStart ==
    /\ ready_pc = "start"
    /\ jan_tasks' = jan_tasks + 1
    /\ ready_pc' = "idle"
    /\ UNCHANGED <<session, outbox, db_pool, readies, BOT_ROLES, bot_roles, gate>>

\* The bot is given or loses a role in one of its guilds.
BotRolesChange(held) ==
    /\ held # bot_roles
    /\ bot_roles' = held
    /\ UNCHANGED <<session, outbox, db_pool, jan_tasks, ready_pc, readies,
                   BOT_ROLES, gate>>

\* Mutant of lines 282-286: without the break, the roles of every mutual
\* guild are collected.
UserRoles_AllGuilds(member) ==
    UNION {member[i] : i \in {j \in DOMAIN member : member[j] # NotMember}}

\* Lines 280-286: the author's roles in the first guild of bot.guilds in
\* which the author is a member; empty when there is none.
UserRoles(member) ==
    LET mutual == {i \in DOMAIN member : member[i] # NotMember} IN
    IF mutual = {} THEN {}
    ELSE member[CHOOSE i \in mutual : \A j \in mutual : i <= j]

\* Line 289: the test of the roles.
Permitted(roles, bot) ==
    roles \cap ALLOWED_ROLES # {} \/ roles \cap bot # {}

\* Lines 268-294: on_message for the message m.  update_bot_roles reaches no
\* await, so up to the denial or the create_task the handler is one step.
Gate(m) ==
    /\ UNCHANGED <<outbox, db_pool, jan_tasks, ready_pc, readies, bot_roles>>
    /\ IF m.own
       THEN /\ gate' = [own |-> m.own, dm |-> m.dm, member |-> m.member,
                         did |-> "ignored"]
            /\ UNCHANGED <<session, BOT_ROLES>>
       ELSE /\ BOT_ROLES' = BotRoles(bot_roles)
            /\ IF ~m.dm
               THEN /\ gate' = [own |-> m.own, dm |-> m.dm, member |-> m.member,
                                 did |-> "ignored"]
                    /\ UNCHANGED session
               ELSE IF ~Permitted(UserRoles(m.member), BotRoles(bot_roles))
               THEN /\ gate' = [own |-> m.own, dm |-> m.dm, member |-> m.member,
                                 did |-> "denied"]
                    /\ UNCHANGED session
               ELSE /\ gate' = [own |-> m.own, dm |-> m.dm, member |-> m.member,
                                 did |-> "started"]
                    /\ \E h \in Handlers : StartTask(h, m.author)

\* The messages the gateway can deliver.
Inbound == [own : BOOLEAN, dm : BOOLEAN, author : Users, member : Memberships]

GatewayNext ==
    \/ Ready
    \/ \E ok \in BOOLEAN : ReadyConnect(ok)
    \/ ReadyStart
    \/ \E held \in BotRoleSets : BotRolesChange(held)
    \/ \E m \in Inbound : Gate(m)

GatewaySpec == GatewayInit /\ [][GatewayNext]_vars

\* ------------------------------------------------------ send_long_message
\* A text is the sequence of its character positions 0 .. len(text) - 1, and
\* a piece of it the pair <<from, to>> of the positions from .. to - 1.
\* The Python slice text[a:b] for 0 <= a <= b: both ends are cut at len(text).
Slice(n, a, b) == <<Min(a, n), Min(b, n)>>

\* Mutant of line 555: the slice ends one character early.
Chunk_Short(n, i) == Slice(n, i, i + MaxLength - 1)

\* Line 555: chunk = text[i:i + max_length].
Chunk(n, i) == Slice(n, i, i + MaxLength)

\* send_long_message is called with a text of any length up to MaxTextLen.
SenderInit ==
    /\ InitSession
    /\ InitStarted
    /\ text_len \in 0..MaxTextLen
    /\ chunk_i = 0
    /\ chunks = <<>>
    /\ send_pc = "loop"

\* Lines 554-556: one turn of `for i in range(0, len(text), max_length)`;
\* channel.send delivers the chunk or raises, which ends the call.
SendChunk(ok) ==
    /\ send_pc = "loop"
    /\ chunk_i < text_len
    /\ IF ok
       THEN /\ chunks' = Append(chunks, Chunk(text_len, chunk_i))
            /\ chunk_i' = chunk_i + MaxLength
            /\ UNCHANGED send_pc
       ELSE /\ send_pc' = "raised"
            /\ UNCHANGED <<chunks, chunk_i>>
    /\ UNCHANGED <<session, gateway, text_len>>

\* Line 554: the range is exhausted and the function returns.
SendReturn ==
    /\ send_pc = "loop"
    /\ chunk_i >= text_len
    /\ send_pc' = "done"
    /\ UNCHANGED <<session, gateway, text_len, chunk_i, chunks>>

SenderNext ==
    \/ \E ok \in BOOLEAN : SendChunk(ok)
    \/ SendReturn

SenderSpec == SenderInit /\ [][SenderNext]_vars

\* ====================================================== the claims
\* The step taken is a step of handler h.
StepOf(h) == Running(h) /\ pc'[h] # pc[h]

\* The step ends handler h's task.
Exits(h) == Running(h) /\ pc'[h] \in {"idle", "done"}

\* Handler h has issued a messages.create on its current thread_id, or is
\* about to, and its run on that thread has not completed.
InFlight(h) == pc[h] \in {"messages_create", "notify_ai", "retry", "run"}

\* C1: guard release on every exit path -- in every state where no handler
\* is running, active_threads is empty.
C1_GuardReleased ==
    (\A h \in Handlers : ~Running(h)) => active_threads = {}

\* C2: single-flight admission -- of two handlers whose requests ran
\* concurrently and resolved the same thread id, only one passes the test of
\* the guard, and once both have completed that thread id is not in
\* active_threads.
C2_SingleFlight ==
    [][\A h \in Handlers :
         /\ (/\ pc[h] = "admit"
             /\ \E g \in overlap[h] : resolved[g] = thread_id[h] /\ admitted[g] # None)
            => pc'[h] # "messages_create"
         /\ (/\ Exits(h)
             /\ resolved[h] # None
             /\ \E g \in overlap[h] : resolved[g] = resolved[h]
             /\ \A g \in overlap[h] : pc'[g] \in {"idle", "done"})
            => resolved[h] \notin active_threads'
      ]_vars

\* C3: the guard covers the retry as one cycle -- no two handlers are at the
\* same time between their messages.create and the completion of their run
\* on the same thread id, a replacement thread id included.
C3_OneInFlightPerThread ==
    \A h, g \in Handlers :
        (h # g /\ InFlight(h) /\ InFlight(g)) => thread_id[h] # thread_id[g]

\* C4: resolving a user with no session creates one thread and persists it
\* (the store holds it when save_thread returns); a resolve that finds a
\* session in the cache or the store returns that thread id and creates none.
C4_ResolveCreatesAndPersists ==
    [][\A h \in Handlers :
         /\ (pc[h] = "save_thread" /\ StepOf(h) /\ user_threads[user[h]] = NoRow)
            => user_threads'[user[h]].thread_id = thread_id[h]
         /\ (pc[h] = "get_thread_id" /\ StepOf(h) /\ thread_cache[user[h]] # None)
            => (thread_id'[h] = thread_cache[user[h]] /\ pc'[h] # "create_thread"
                /\ threads_created' = threads_created)
      ]_vars

\* C5: cache-store consistency after resolve -- when the save_thread call
\* that ends a resolve returns, the cache entry and the store record of the
\* user both hold the thread id handed to the handler.
C5_CacheStoreAfterResolve ==
    [][\A h \in Handlers :
         (pc[h] = "save_thread" /\ StepOf(h))
         => /\ thread_cache'[user[h]] = thread_id[h]
            /\ user_threads'[user[h]].thread_id = thread_id[h]
      ]_vars

\* C6: stale-thread recovery -- when the retry on the replacement thread
\* succeeds the request goes on to the run on the replacement thread, and
\* the store record and the cache entry of the user hold the replacement.
C6_StaleRecovery ==
    [][\A h \in Handlers :
         (pc[h] = "retry" /\ pc'[h] = "run")
         => /\ thread_id'[h] = thread_id[h]
            /\ thread_id[h] # admitted[h]
            /\ thread_cache'[user[h]] = thread_id[h]
            /\ user_threads'[user[h]].thread_id = thread_id[h]
      ]_vars

\* C7: no retry on a generic failure -- after a first messages.create that
\* failed with an error other than 'thread not found', the request creates
\* no thread, writes neither the cache nor the store, and issues no second
\* messages.create.
C7_NoRetryOnGeneric ==
    [][\A h \in Handlers :
         (first_error[h] = "generic" /\ StepOf(h))
         => /\ threads_created' = threads_created
            /\ thread_cache' = thread_cache
            /\ user_threads' = user_threads
            /\ attempts[h] = 1
            /\ attempts'[h] <= 1
      ]_vars

\* A request whose first messages.create failed generically went on to the run.
C7_Witness ==
    \E h \in Handlers :
        first_error[h] = "generic" /\ pc[h] = "messages_list" /\ "error_ai" \in dm[h]

\* C8: bounded retry -- a request issues at most two messages.create and
\* creates at most one replacement thread; after the retry the handler goes
\* to the run or to the failure report, and from the failure report it returns.
C8_BoundedRetry ==
    [][\A h \in Handlers :
         /\ attempts'[h] <= 2
         /\ replaced'[h] <= 1
         /\ (pc[h] = "retry" /\ StepOf(h)) => pc'[h] \in {"run", "notify_cali"}
         /\ (pc[h] = "notify_cali" /\ StepOf(h)) => pc'[h] \in {"idle", "done"}
      ]_vars

\* A retry on a replacement thread has failed and is being reported.
C8_Witness ==
    \E h \in Handlers :
        pc[h] = "notify_cali" /\ attempts[h] = 2 /\ replaced[h] = 1

\* C9: a janitor cycle removes from the cache exactly the users its query
\* returned as stale, leaves the other entries as they are, and never
\* changes the store, which still holds the thread id of every evicted user.
C9_JanitorFrame ==
    [][(jan_pc' # jan_pc \/ jan_sleep' > jan_sleep)
       => /\ user_threads' = user_threads
          /\ jan_pc = "sleep" =>
               /\ thread_cache' = thread_cache
               /\ jan_pc' = "evict" =>
                    jan_results' = {u \in Users :
                                      /\ user_threads[u].thread_id # None
                                      /\ user_threads[u].age > StaleHours}
          /\ jan_pc = "evict" =>
               /\ \A u \in Users :
                    thread_cache'[u] = IF u \in jan_results THEN None ELSE thread_cache[u]
               /\ \A u \in jan_results : user_threads'[u].thread_id # None
      ]_vars

\* The janitor has evicted a stale user whose record the store still holds,
\* and has left another user's entry in the cache.
C9_Witness ==
    /\ jan_pc = "sleep"
    /\ \E u, v \in Users :
         /\ thread_cache[u] = None
         /\ user_threads[u].thread_id # None
         /\ user_threads[u].age > StaleHours
         /\ thread_cache[v] # None

\* C10: every resolve refreshes recency -- when the save_thread call that
\* ends a resolve returns, last_used of the user's record is the current
\* time (its age is 0) and the thread id of an existing record is unchanged.
C10_ResolveRefreshes ==
    [][\A h \in Handlers :
         (pc[h] = "save_thread" /\ StepOf(h))
         => /\ user_threads'[user[h]].age = 0
            /\ user_threads[user[h]] # NoRow
               => user_threads'[user[h]].thread_id = user_threads[user[h]].thread_id
      ]_vars

\* C11: silent drop -- a message with usable content that reaches the test
\* of the guard while another request is in flight on the same thread id is
\* dropped: its task ends there, nothing is sent to its author, and
\* active_threads is left as it was.
C11_SilentDrop ==
    [][\A h \in Handlers :
         (/\ pc[h] = "admit"
          /\ StepOf(h)
          /\ \E g \in Handlers \ {h} : InFlight(g) /\ thread_id[g] = thread_id[h]
          /\ "warning" \notin dm'[h])
         => /\ Exits(h)
            /\ dm'[h] = {}
            /\ active_threads' = active_threads
      ]_vars

\* The eviction step of a janitor cycle that follows a completed cycle with
\* no handler running in between.
SecondCycle == jan_pc = "evict" /\ jan_pc' = "sleep" /\ jan_prev # {}

\* C12 (as stated): janitor idempotence -- of two janitor cycles in succession
\* with no resolve, save or retry in between, the second leaves thread_cache
\* as the first left it.
C12_JanitorIdempotent ==
    [][SecondCycle => thread_cache' = thread_cache]_vars

\* C12 (amended): of two janitor cycles in succession with no resolve, save or
\* retry in between, the second removes no entry of a user the first cycle's
\* query returned (they are absent already); it removes only entries of users
\* whose record passed the 24 hours after the first cycle's query.
C12_SecondCycleOnlyNewlyStale ==
    [][SecondCycle =>
         \A S \in jan_prev :
            /\ \A u \in S : thread_cache[u] = None /\ thread_cache'[u] = None
            /\ \A u \in Users :
                 thread_cache'[u] # thread_cache[u]
                 => /\ u \notin S
                    /\ thread_cache'[u] = None
                    /\ user_threads[u] # NoRow
                    /\ user_threads[u].age > StaleHours
      ]_vars

\* A second cycle is about to evict a user that was not stale at the first
\* cycle, which evicted another.
C12_Witness ==
    /\ jan_pc = "evict"
    /\ \E S \in jan_prev :
         /\ S # {}
         /\ \E u \in jan_results \ S : thread_cache[u] # None

\* C13: a store read failure is not 'no thread exists' -- the lookup of a
\* cache miss either hands the handler what the store holds for the user
\* (the thread id of the row, None only when there is no row), or it ends the
\* task: no thread is created, and the cache, the store and the guard stay
\* as they are.
C13_ReadFailureIsNotAMiss ==
    [][\A h \in Handlers :
         (pc[h] = "select" /\ StepOf(h))
         => /\ UNCHANGED shared
            /\ \/ /\ pc'[h] = "selected"
                  /\ thread_id'[h] = user_threads[user[h]].thread_id
               \/ Exits(h)
      ]_vars

\* A lookup has failed and ended its task while the other task goes on, and
\* no thread was created for it.
C13_Witness ==
    \E h \in Handlers :
        /\ pc[h] = "done"
        /\ resolved[h] = LookupRaised
        /\ threads_created < messages

\* C14: request-cycle state machine -- a handler enters the run only from a
\* messages.create (the first, or the retry) that succeeded; a request whose
\* messages.create failed with a generic error never reaches the run or the
\* fetch of the reply, and when it ends its thread id is not in active_threads.
C14_RunOnlyAfterCreate ==
    [][\A h \in Handlers :
         /\ (pc'[h] = "run" /\ pc[h] # "run")
            => pc[h] \in {"messages_create", "retry"}
         /\ first_error'[h] = "generic"
            => pc'[h] \notin {"run", "messages_list"}
         /\ (Exits(h) /\ first_error[h] = "generic")
            => admitted[h] \notin active_threads'
      ]_vars

\* C15: no duplicate threads under concurrency -- the threads created for a
\* user are at most one plus the 'thread not found' signals received for the
\* user.  A request creates one replacement per signal it receives (line 465),
\* so the bound says that the resolutions create at most one thread for a
\* user: a resolution creates a thread only for a user for whom none was
\* created before, that is, who is in neither the cache nor the store.
C15_NoDuplicateThreads ==
    [][\A h \in Handlers :
         (pc[h] = "create_thread" /\ threads_created' > threads_created)
         => /\ thread_cache[user[h]] = None
            /\ user_threads[user[h]] = NoRow
      ]_vars

\* A save_thread call for user u has written the cache and has its upsert
\* pending.
Saving(u) ==
    \E h \in Handlers : user[h] = u /\ pc[h] \in {"save_thread", "resave_thread"}

\* C16: cache agrees with store at quiescence -- with every store write
\* succeeding, in every state where no save_thread call for a user is in
\* progress, a present cache entry of the user is the thread id the store
\* holds for the user.
C16_CacheAgreesAtQuiescence ==
    \A u \in Users :
        (~Saving(u) /\ thread_cache[u] # None)
        => thread_cache[u] = user_threads[u].thread_id

\* C17: a store write failure is fatal for the request -- when the upsert of
\* the resolution's save_thread has failed (the store does not hold the
\* handler's thread id with a fresh last_used), the task ends there, before any
\* messages.create or run, and the cache holds no thread id for the user
\* that the store does not hold.
C17_WriteFailureIsFatal ==
    [][\A h \in Handlers :
         (/\ pc[h] = "save_thread"
          /\ StepOf(h)
          /\ user_threads'[user[h]] # [thread_id |-> thread_id[h], age |-> 0])
         => /\ Exits(h)
            /\ thread_cache'[user[h]] \in {None, user_threads'[user[h]].thread_id}
      ]_vars

\* The messages that tell the author how the request ended.
Outcomes == {"reply", "error_ai", "error_cali"}

\* C18: every failure is reported -- a request that ends after its resolution
\* began, otherwise than by being dropped or warned at the admission test,
\* has delivered the reply or one of the error texts to its author.  (What a
\* request sent is on record while another task is running; a task that ends
\* in the failure report because the send itself failed is left aside.)
C18_FailureIsReported ==
    [][\A h \in Handlers :
         (/\ Exits(h)
          /\ pc'[h] = "done"
          /\ pc[h] \notin {"admit", "notify_cali"})
         => dm'[h] \cap Outcomes # {}
      ]_vars

\* C19: a failed thread creation of the resolution creates nothing -- the
\* step in which threads.create fails leaves the cache, the store and the
\* guard as they are and ends the task, so that no messages.create and no
\* run follow.
C19_CreateFailureFrame ==
    [][\A h \in Handlers :
         (/\ pc[h] = "create_thread"
          /\ StepOf(h)
          /\ threads_created' = threads_created)
         => /\ UNCHANGED shared
            /\ Exits(h)
      ]_vars

\* The thread creation of a new user's request has failed and ended its task
\* while another task goes on; no thread exists and nothing was stored.
C19_Witness ==
    \E h \in Handlers :
        /\ pc[h] = "done"
        /\ resolved[h] = CreateRaised
        /\ threads_created = 0
        /\ \A u \in Users : thread_cache[u] = None /\ user_threads[u] = NoRow

\* The janitor's query is due.
QueryDue == jan_pc = "sleep" /\ jan_sleep = 0

\* C20: janitor fault tolerance -- a cycle whose query fails changes neither
\* the cache nor the store and puts the janitor back to sleep for the next
\* cycle; a cycle whose query succeeds, after whatever failures, fetches the
\* users that are stale then and evicts them; and the loop never stops: the
\* query comes due again and again.
C20_JanitorFaultTolerance ==
    /\ [][/\ (QueryDue /\ jan_pc' # "evict" /\ jan_sleep' # jan_sleep)
             => /\ thread_cache' = thread_cache
                /\ user_threads' = user_threads
                /\ jan_pc' = "sleep"
                /\ jan_sleep' = SleepHours
          /\ (QueryDue /\ jan_pc' = "evict")
             => \A u \in Users :
                  u \in jan_results'
                  <=> (user_threads[u] # NoRow /\ user_threads[u].age > StaleHours)
          /\ (jan_pc = "evict" /\ jan_pc' # "evict")
             => \A u \in jan_results : thread_cache'[u] = None
         ]_vars
    /\ []<>QueryDue

\* After a cycle that failed, the next cycle's query has succeeded and is
\* about to evict a stale user from the cache.
C20_Witness ==
    /\ jan_failed
    /\ jan_pc = "evict"
    /\ \E u \in jan_results : thread_cache[u] # None

\* C21: the janitor is started once -- at most one reset_thread_cache task
\* exists, however often on_ready fires, and a task is started only when the
\* pool was created.
C21_JanitorStartedOnce ==
    [][/\ jan_tasks' <= 1
       /\ jan_tasks' > jan_tasks => db_pool # None
      ]_vars

\* C22: independence across threads -- requests of different users never
\* hold the same thread id; a step of a handler changes the membership in
\* active_threads of its own thread id only; and a message with usable content
\* whose thread id is not in active_threads is admitted, whatever other
\* thread ids are in flight.
C22_IndependentThreads ==
    /\ [](\A h, g \in Handlers :
            (Running(h) /\ Running(g) /\ user[h] # user[g] /\ thread_id[h] # None)
            => thread_id[h] # thread_id[g])
    /\ [][\A h \in Handlers :
            /\ StepOf(h)
               => \A t \in ThreadIds \ {thread_id[h]} :
                    (t \in active_threads') <=> (t \in active_threads)
            /\ (/\ pc[h] = "admit"
                /\ StepOf(h)
                /\ thread_id[h] \notin active_threads)
               => \/ pc'[h] = "messages_create"
                  \/ Exits(h) /\ (pc'[h] = "done" => "warning" \in dm'[h])
         ]_vars

\* Two requests are in flight at once on different thread ids, each admitted
\* on its own.
C22_Witness ==
    \E h, g \in Handlers :
        /\ InFlight(h) /\ InFlight(g)
        /\ thread_id[h] # thread_id[g]
        /\ admitted[h] = thread_id[h] /\ admitted[g] = thread_id[g]
        /\ {thread_id[h], thread_id[g]} \subseteq active_threads

\* C23: the reply relayed is the request's own -- while a handler is between
\* the completion of its run and its messages.list, no other handler adds a
\* message to the same thread (a messages.create that succeeds) or completes
\* a run on it.
C23_ReplyIsOwn ==
    [][\A h, g \in Handlers :
         (h # g /\ pc[h] = "messages_list" /\ thread_id[g] = thread_id[h])
         => /\ ~(pc[g] \in {"messages_create", "retry"} /\ pc'[g] = "run")
            /\ ~(pc[g] = "run" /\ pc'[g] = "messages_list")
      ]_vars

\* C24: access gate -- a handle_user_message task is started only by a
\* message that is not the bot's own, came in a direct-message channel, and
\* whose author holds, in the first guild shared with the bot, a role named
\* in ALLOWED_ROLES or in BOT_ROLES; a message that is ignored or denied
\* changes neither the cache, the store nor the guard and starts no task.
C24_AccessGate ==
    [][/\ messages' > messages
          => /\ gate'.did = "started"
             /\ ~gate'.own
             /\ gate'.dm
             /\ \E i \in 1..NumGuilds :
                  /\ gate'.member[i] # NotMember
                  /\ \A j \in 1..(i - 1) : gate'.member[j] = NotMember
                  /\ gate'.member[i] \cap (ALLOWED_ROLES \cup BOT_ROLES') # {}
       /\ gate'.did # "started"
          => UNCHANGED <<shared, messages, pc, user>>
       /\ (gate'.did = "started" /\ gate' # gate)
          => messages' > messages
      ]_vars

\* A task was started for an author who is not in the first guild and holds
\* one of the bot's roles, not Admin, in the second.
C24_Witness ==
    /\ gate.did = "started"
    /\ gate.member[1] = NotMember
    /\ "Helper" \in gate.member[2]
    /\ "Admin" \notin gate.member[2]
    /\ \E h \in Handlers : pc[h] = "get_thread_id"

\* C25: send_long_message -- the chunks sent are consecutive pieces of the
\* text, in order from its first character; when the function returns they
\* end at its last character (their concatenation is the text), every chunk
\* has at most MaxLength characters and every chunk but the last exactly
\* MaxLength; for an empty text nothing is sent.
C25_ChunksAreTheText ==
    /\ \A k \in 1..Len(chunks) :
         /\ chunks[k][1] = (IF k = 1 THEN 0 ELSE chunks[k - 1][2])
         /\ chunks[k][2] - chunks[k][1] \in 1..MaxLength
         /\ k < Len(chunks) => chunks[k][2] - chunks[k][1] = MaxLength
    /\ send_pc = "done"
       => /\ text_len = 0 => chunks = <<>>
          /\ text_len > 0 => chunks[Len(chunks)][2] = text_len

\* A text one character longer than two full chunks was sent in three.
C25_Witness ==
    /\ send_pc = "done"
    /\ text_len = 2 * MaxLength + 1
    /\ Len(chunks) = 3
    /\ chunks[3] = <<2 * MaxLength, 2 * MaxLength + 1>>
====
